---- MODULE Spec2Model ----
(***************************************************************************)
(* Model of the NFL probability data generator                             *)
(* (preprocessing/generate_probabilities.py) and of the CORS proxy         *)
(* (proxy-server.py).                                                      *)
(*                                                                         *)
(* A DataFrame is [isNone, columns, rows]: `columns` is the set of column  *)
(* names and `rows` is a run-length encoded sequence of blocks             *)
(* [rec |-> row, n |-> k], standing for k consecutive rows equal to `rec`  *)
(* (up to play_id, which is only ever counted).  A row is a function from  *)
(* the column names to values.  A missing numeric value is NaN, a missing  *)
(* string value is NA.  A mean is kept as the exact fraction [num, den].   *)
(***************************************************************************)
EXTENDS Integers, Sequences, FiniteSets, TLC

\* ------------------------------------------------------------------ bounds
MaxBlocks == 2
MaxRoster == 51
MaxYards == 12
MaxYardline == 52
MaxRequests == 3

\* ------------------------------------------------------- program constants
NaN == -1
NA == "NaN"
Season2025 == 2025
Season2024 == 2024
LeagueMinSample == 10
TeamMinSample == 5
ReceiverMinTargets == 10
RusherMinCarries == 10
ReceiverTop == 50
RusherTop == 50

isna(x) == x = NaN
isnaStr(s) == s = NA

\* ------------------------------------------------------------- bucketizers
distance_bucket_exclusive(yards) ==
    IF isna(yards) THEN "medium"
    ELSE IF yards < 3 THEN "short"
    ELSE IF yards <= 6 THEN "medium"
    ELSE IF yards <= 10 THEN "long"
    ELSE "very_long"

\* calculate_league_rates.distance_bucket
distance_bucket(yards) ==
    IF isna(yards) THEN "medium"
    ELSE IF yards <= 3 THEN "short"
    ELSE IF yards <= 6 THEN "medium"
    ELSE IF yards <= 10 THEN "long"
    ELSE "very_long"

\* calculate_team_rates.distance_bucket
team_distance_bucket(yards) ==
    IF isna(yards) THEN "medium"
    ELSE IF yards <= 3 THEN "short"
    ELSE IF yards <= 6 THEN "medium"
    ELSE IF yards <= 10 THEN "long"
    ELSE "very_long"

\* calculate_field_position_impact.field_zone
field_zone(yardline_100) ==
    IF isna(yardline_100) THEN "mid_field"
    ELSE IF yardline_100 <= 10 THEN "red_zone"
    ELSE IF yardline_100 <= 20 THEN "green_zone"
    ELSE IF yardline_100 <= 50 THEN "mid_field"
    ELSE "own_territory"

\* ------------------------------------------------------ DataFrame helpers
NoneFrame == [isNone |-> TRUE, columns |-> {}, rows |-> <<>>]

Frame(cols, rows) == [isNone |-> FALSE, columns |-> cols, rows |-> rows]

\* df[mask]: the blocks at which the boolean mask is true, in order
Mask(rows, mask) ==
    LET at == SelectSeq([i \in DOMAIN rows |-> i], LAMBDA i : mask[i])
    IN [k \in DOMAIN at |-> rows[at[k]]]

\* df[col] = f(row): add or overwrite a column
SetColumn(rec, col, v) ==
    [c \in (DOMAIN rec) \cup {col} |-> IF c = col THEN v ELSE rec[c]]

\* `values` is the new column, one value per block
Assign(df, col, values) ==
    [df EXCEPT !.columns = @ \cup {col},
               !.rows = [i \in DOMAIN @ |->
                            [@[i] EXCEPT !.rec = SetColumn(@, col, values[i])]]]

RECURSIVE SumSeq(_)
SumSeq(s) == IF s = <<>> THEN 0 ELSE Head(s) + SumSeq(Tail(s))

\* number of rows (not blocks) at which the mask is true
CountRows(rows, mask) ==
    SumSeq([i \in DOMAIN rows |-> IF mask[i] THEN rows[i].n ELSE 0])

\* len(df)
len(df) == CountRows(df.rows, [i \in DOMAIN df.rows |-> TRUE])

\* groupby(...).agg('mean') of a 0/1 column over the rows of one group
Mean(rows, col, group) ==
    [num |-> CountRows(rows, [i \in DOMAIN rows |-> group[i] /\ rows[i].rec[col] = 1]),
     den |-> CountRows(rows, [i \in DOMAIN rows |-> group[i] /\ ~isna(rows[i].rec[col])])]

\* groupby(...).agg('count') of play_id
CountPlayId(rows, group) ==
    CountRows(rows, [i \in DOMAIN rows |-> group[i] /\ ~isna(rows[i].rec["play_id"])])

\* groupby(...).agg('first'): the first non-null value of a string column
First(rows, col, group) ==
    LET hit == Mask(rows, [i \in DOMAIN rows |-> group[i] /\ ~isnaStr(rows[i].rec[col])])
    IN IF hit = <<>> THEN NA ELSE hit[1].rec[col]

\* Python string order of the labels that occur as grouping keys
Collation ==
    <<"ABC", "XYZ", "green_zone", "long", "medium", "mid_field",
      "own_territory", "pass", "red_zone", "run", "short", "very_long">>

StrRank(s) == CHOOSE i \in DOMAIN Collation : Collation[i] = s

StrLess(a, b) == StrRank(a) < StrRank(b)

\* groupby sorts the group keys (sort=True): the key at position i is the one
\* with i-1 keys before it; before[k] is the set of keys that sort before k
SortKeys(S, before) ==
    [i \in 1..Cardinality(S) |-> CHOOSE k \in S : Cardinality(before[k]) = i - 1]

RowsOf(rows) == {rows[i].rec : i \in DOMAIN rows}

\* ------------------------------------------------- load_play_by_play_data
\* pbp[pbp['play_type'].isin(['pass','run'])], then pbp[pbp['down'].isin([1,2,3,4])]
FilterPlays(df) ==
    LET plays == Mask(df.rows,
                      [i \in DOMAIN df.rows |->
                          df.rows[i].rec["play_type"] \in {"pass", "run"}])
    IN [df EXCEPT !.rows =
           Mask(plays, [i \in DOMAIN plays |-> plays[i].rec["down"] \in {1, 2, 3, 4}])]

\* first_down_converted = ((first_down == 1) | (touchdown == 1)).astype(int)
DerivedFirstDown(r) == IF r["first_down"] = 1 \/ r["touchdown"] = 1 THEN 1 ELSE 0

\* The column lookups of lines 122-123 raise KeyError when the column is
\* absent; the outer except turns that into (None, None).
DeriveFirstDownConverted(df) ==
    IF "first_down_converted" \in df.columns THEN df
    ELSE IF {"first_down", "touchdown"} \subseteq df.columns
         THEN Assign(df, "first_down_converted",
                     [i \in DOMAIN df.rows |-> DerivedFirstDown(df.rows[i].rec)])
         ELSE NoneFrame

\* the part of load_play_by_play_data after a successful fetch
FilterAndDerive(raw) == DeriveFirstDownConverted(FilterPlays(raw))

\* -------------------------------------------------- calculate_league_rates
\* pbp['dist_bucket'] = pbp['ydstogo'].apply(distance_bucket)   (in place)
LeagueFrame(pbp) ==
    Assign(pbp, "dist_bucket",
           [j \in DOMAIN pbp.rows |-> distance_bucket(pbp.rows[j].rec["ydstogo"])])

ThirdFourth(df) == Mask(df.rows, [j \in DOMAIN df.rows |-> df.rows[j].rec["down"] \in {3, 4}])

LeagueKey(r) == <<r["down"], r["dist_bucket"], r["play_type"]>>

LeagueKeyLess(a, b) ==
    \/ a[1] < b[1]
    \/ a[1] = b[1] /\ StrLess(a[2], b[2])
    \/ a[1] = b[1] /\ a[2] = b[2] /\ StrLess(a[3], b[3])

\* groupby lists the group keys in sorted order (sort=True)
LeagueKeysBefore(S) == [k \in S |-> {o \in S : LeagueKeyLess(o, k)}]

\* groupby drops the rows with a null key component (dropna=True)
LeagueKeys(rows) ==
    {LeagueKey(r) : r \in {x \in RowsOf(rows) :
        ~isna(x["down"]) /\ ~isnaStr(x["dist_bucket"]) /\ ~isnaStr(x["play_type"])}}

\* the rows of one group, as a boolean mask
LeagueGroup(rows, key) == [j \in DOMAIN rows |-> LeagueKey(rows[j].rec) = key]

LeagueGroups(rows) ==
    LET keys == SortKeys(LeagueKeys(rows), LeagueKeysBefore(LeagueKeys(rows)))
    IN [i \in DOMAIN keys |->
          [down |-> keys[i][1], distance |-> keys[i][2], play_type |-> keys[i][3],
           success_rate |-> Mean(rows, "first_down_converted",
                                 LeagueGroup(rows, keys[i])),
           sample_size |-> CountPlayId(rows, LeagueGroup(rows, keys[i]))]]

KeepLeagueAbove(rate) == rate.sample_size > LeagueMinSample

\* rates[rates['sample_size'] >= 10]
KeepLeague(rate) == rate.sample_size >= LeagueMinSample

calculate_league_rates(pbp) ==
    SelectSeq(LeagueGroups(ThirdFourth(LeagueFrame(pbp))), KeepLeague)

\* ---------------------------------------------------- calculate_team_rates
TeamFrame(pbp) ==
    Assign(pbp, "dist_bucket",
           [j \in DOMAIN pbp.rows |-> team_distance_bucket(pbp.rows[j].rec["ydstogo"])])

ThirdDowns(df) == Mask(df.rows, [j \in DOMAIN df.rows |-> df.rows[j].rec["down"] = 3])

TeamKey(r) == <<r["posteam"], r["dist_bucket"], r["play_type"]>>

TeamKeyLess(a, b) ==
    \/ StrLess(a[1], b[1])
    \/ a[1] = b[1] /\ StrLess(a[2], b[2])
    \/ a[1] = b[1] /\ a[2] = b[2] /\ StrLess(a[3], b[3])

TeamKeysBefore(S) == [k \in S |-> {o \in S : TeamKeyLess(o, k)}]

TeamKeys(rows) ==
    {TeamKey(r) : r \in {x \in RowsOf(rows) :
        ~isnaStr(x["posteam"]) /\ ~isnaStr(x["dist_bucket"]) /\ ~isnaStr(x["play_type"])}}

\* the rows of one group, as a boolean mask
TeamGroup(rows, key) == [j \in DOMAIN rows |-> TeamKey(rows[j].rec) = key]

TeamGroups(rows) ==
    LET keys == SortKeys(TeamKeys(rows), TeamKeysBefore(TeamKeys(rows)))
    IN [i \in DOMAIN keys |->
          [team |-> keys[i][1], distance |-> keys[i][2], play_type |-> keys[i][3],
           success_rate |-> Mean(rows, "first_down_converted",
                                 TeamGroup(rows, keys[i])),
           sample_size |-> CountPlayId(rows, TeamGroup(rows, keys[i]))]]

KeepTeamBelow(rate) == rate.sample_size >= TeamMinSample - 1 /\ ~isnaStr(rate.team)

\* rates[rates['sample_size'] >= 5], then rates[rates['team'].notna()]
KeepTeam(rate) == rate.sample_size >= TeamMinSample /\ ~isnaStr(rate.team)

calculate_team_rates(pbp) ==
    SelectSeq(TeamGroups(ThirdDowns(TeamFrame(pbp))), KeepTeam)

\* ----------------------------------------- calculate_field_position_impact
FieldFrameDefaultInPlace(pbp) ==
    LET df == Assign(pbp, "field_zone",
                     [j \in DOMAIN pbp.rows |-> field_zone(pbp.rows[j].rec["yardline_100"])])
    IN IF "touchdown" \in df.columns THEN df
       ELSE Assign(df, "touchdown", [j \in DOMAIN df.rows |-> 0])

\* pbp['field_zone'] = pbp['yardline_100'].apply(field_zone)   (in place)
FieldFrame(pbp) ==
    Assign(pbp, "field_zone",
           [j \in DOMAIN pbp.rows |-> field_zone(pbp.rows[j].rec["yardline_100"])])

\* third_downs is a copy: the default touchdown column is added to the copy
WithTouchdown(df) ==
    IF "touchdown" \in df.columns THEN df
    ELSE Assign(df, "touchdown", [j \in DOMAIN df.rows |-> 0])

FieldKey(r) == <<r["field_zone"], r["play_type"]>>

FieldKeyLess(a, b) ==
    \/ StrLess(a[1], b[1])
    \/ a[1] = b[1] /\ StrLess(a[2], b[2])

FieldKeysBefore(S) == [k \in S |-> {o \in S : FieldKeyLess(o, k)}]

FieldKeys(rows) ==
    {FieldKey(r) : r \in {x \in RowsOf(rows) :
        ~isnaStr(x["field_zone"]) /\ ~isnaStr(x["play_type"])}}

\* the rows of one group, as a boolean mask
FieldGroup(rows, key) == [j \in DOMAIN rows |-> FieldKey(rows[j].rec) = key]

FieldGroups(rows) ==
    LET keys == SortKeys(FieldKeys(rows), FieldKeysBefore(FieldKeys(rows)))
    IN [i \in DOMAIN keys |->
          [zone |-> keys[i][1], play_type |-> keys[i][2],
           conversion_rate |-> Mean(rows, "first_down_converted",
                                    FieldGroup(rows, keys[i])),
           td_rate |-> Mean(rows, "touchdown", FieldGroup(rows, keys[i])),
           sample_size |-> CountPlayId(rows, FieldGroup(rows, keys[i]))]]

calculate_field_position_impact(pbp) ==
    LET fz == FieldFrame(pbp)
        third_downs == WithTouchdown(Frame(fz.columns, ThirdDowns(fz)))
    IN FieldGroups(third_downs.rows)

\* --------------------------------------------------- calculate_player_rates
ThirdDownPasses(pbp) ==
    Mask(pbp.rows, [j \in DOMAIN pbp.rows |->
                       pbp.rows[j].rec["down"] = 3 /\ pbp.rows[j].rec["play_type"] = "pass"])

ThirdDownRuns(pbp) ==
    Mask(pbp.rows, [j \in DOMAIN pbp.rows |->
                       pbp.rows[j].rec["down"] = 3 /\ pbp.rows[j].rec["play_type"] = "run"])

\* complete_pass = pass_length.notna().astype(int), on the copy
WithCompletePass(df) ==
    IF "complete_pass" \in df.columns THEN df
    ELSE Assign(df, "complete_pass",
                [j \in DOMAIN df.rows |-> IF isnaStr(df.rows[j].rec["pass_length"]) THEN 0 ELSE 1])

IdLess(a, b) == a < b

\* the group keys of groupby(idcol): null ids form no group
PlayerIds(rows, idcol) == {r[idcol] : r \in RowsOf(rows)} \ {NaN}

IdsBefore(S) == [k \in S |-> {o \in S : IdLess(o, k)}]

\* the rows of one player, as a boolean mask
PlayerGroup(rows, idcol, id) == [j \in DOMAIN rows |-> rows[j].rec[idcol] = id]

ReceiverStats(rows) ==
    LET ids == SortKeys(PlayerIds(rows, "receiver_player_id"),
                        IdsBefore(PlayerIds(rows, "receiver_player_id")))
    IN [i \in DOMAIN ids |->
          [player_id |-> ids[i],
           player_name |-> First(rows, "receiver_player_name",
                                 PlayerGroup(rows, "receiver_player_id", ids[i])),
           catch_rate |-> Mean(rows, "complete_pass",
                               PlayerGroup(rows, "receiver_player_id", ids[i])),
           conversion_rate |-> Mean(rows, "first_down_converted",
                                    PlayerGroup(rows, "receiver_player_id", ids[i])),
           targets |-> CountPlayId(rows, PlayerGroup(rows, "receiver_player_id", ids[i]))]]

\* targets >= 10, player_id.notna(), player_name.notna()
KeepReceiver(st) ==
    st.targets >= ReceiverMinTargets /\ ~isna(st.player_id) /\ ~isnaStr(st.player_name)

RusherStats(rows) ==
    LET ids == SortKeys(PlayerIds(rows, "rusher_player_id"),
                        IdsBefore(PlayerIds(rows, "rusher_player_id")))
    IN [i \in DOMAIN ids |->
          [player_id |-> ids[i],
           player_name |-> First(rows, "rusher_player_name",
                                 PlayerGroup(rows, "rusher_player_id", ids[i])),
           conversion_rate |-> Mean(rows, "first_down_converted",
                                    PlayerGroup(rows, "rusher_player_id", ids[i])),
           carries |-> CountPlayId(rows, PlayerGroup(rows, "rusher_player_id", ids[i]))]]

KeepRusher(st) ==
    st.carries >= RusherMinCarries /\ ~isna(st.player_id) /\ ~isnaStr(st.player_name)

\* comparison of two means, as exact fractions
RateLess(a, b) == a.num * b.den < b.num * a.den

RateEq(a, b) == a.num * b.den = b.num * a.den

\* the rows that may come next in a descending sort of the rows indexed by I
Largest(stats, I) ==
    {i \in I : \A j \in I : ~RateLess(stats[i].conversion_rate, stats[j].conversion_rate)}

RECURSIVE SortDescending(_, _)
\* sort_values('conversion_rate', ascending=False) with the default kind
\* 'quicksort', which is not stable: every descending arrangement of the rows
\* is a possible result, the order inside a tie being up to the sort.
SortDescending(stats, I) ==
    IF I = {} THEN {<<>>}
    ELSE UNION {{<<stats[m]>> \o t : t \in SortDescending(stats, I \ {m})} :
                m \in Largest(stats, I)}

sort_values(stats) == SortDescending(stats, DOMAIN stats)

headOneMore(s, n) == SubSeq(s, 1, IF Len(s) < n + 1 THEN Len(s) ELSE n + 1)

\* .head(n)
head(s, n) == SubSeq(s, 1, IF Len(s) < n THEN Len(s) ELSE n)

\* stats[['player_id','player_name','position','conversion_rate']].to_dict('records')
PlayerRecords(stats, position) ==
    [i \in DOMAIN stats |->
        [player_id |-> stats[i].player_id, player_name |-> stats[i].player_name,
         position |-> position, conversion_rate |-> stats[i].conversion_rate]]

\* the possible receiver lists (line 251-268, 292-293)
ReceiverData(pbp) ==
    LET passes == WithCompletePass(Frame(pbp.columns, ThirdDownPasses(pbp)))
        kept == SelectSeq(ReceiverStats(passes.rows), KeepReceiver)
    IN {PlayerRecords(head(s, ReceiverTop), "WR") : s \in sort_values(kept)}

\* the possible rusher lists (line 271-289)
RusherData(pbp) ==
    IF "rusher_player_id" \in pbp.columns
    THEN LET kept == SelectSeq(RusherStats(ThirdDownRuns(pbp)), KeepRusher)
         IN {PlayerRecords(head(s, RusherTop), "RB") : s \in sort_values(kept)}
    ELSE {<<>>}

calculate_player_rates_independent(pbp) ==
    IF "receiver_player_id" \notin pbp.columns THEN RusherData(pbp)
    ELSE {wr \o rb : wr \in ReceiverData(pbp), rb \in RusherData(pbp)}

\* the possible return values of calculate_player_rates
calculate_player_rates(pbp) ==
    IF "receiver_player_id" \notin pbp.columns THEN {<<>>}
    ELSE {wr \o rb : wr \in ReceiverData(pbp), rb \in RusherData(pbp)}

\* ------------------------------------------------- the provider's tables
AllColumns ==
    {"play_id", "play_type", "down", "ydstogo", "posteam", "yardline_100",
     "first_down", "touchdown", "first_down_converted",
     "receiver_player_id", "receiver_player_name", "complete_pass", "pass_length",
     "rusher_player_id", "rusher_player_name"}

OptionalColumns ==
    {"touchdown", "complete_pass", "receiver_player_id", "rusher_player_id",
     "first_down_converted"}

Play(down, ptype, yds, team, yl, fd, td, who, name) ==
    [play_id |-> 1, play_type |-> ptype, down |-> down, ydstogo |-> yds,
     posteam |-> team, yardline_100 |-> yl, first_down |-> fd, touchdown |-> td,
     first_down_converted |-> IF fd = 1 \/ td = 1 THEN 1 ELSE 0,
     receiver_player_id |-> IF ptype = "pass" THEN who ELSE NaN,
     receiver_player_name |-> IF ptype = "pass" THEN name ELSE NA,
     complete_pass |-> IF ptype = "pass" THEN fd ELSE 0,
     pass_length |-> IF ptype = "pass" /\ fd = 1 THEN "short" ELSE NA,
     rusher_player_id |-> IF ptype = "run" THEN who ELSE NaN,
     rusher_player_name |-> IF ptype = "run" THEN name ELSE NA]

Block(rec, n) == [rec |-> rec, n |-> n]

BlockKinds ==
    {Block(Play(3, "pass", 2, "ABC", 30, 1, 0, 2, "Bo"), 15),
     Block(Play(3, "pass", 2, "ABC", 30, 0, 0, 2, "Bo"), 5),
     Block(Play(3, "pass", 3, "ABC", 8, 1, 1, 1, "Al"), 10),
     Block(Play(3, "pass", 8, NA, NaN, 0, 0, 3, "Cy"), 9),
     Block(Play(3, "run", 5, "XYZ", 15, 0, 1, 4, "Di"), 5),
     Block(Play(3, "run", 8, "XYZ", 15, 0, 0, 4, NA), 4),
     Block(Play(3, "run", 11, "XYZ", 55, 0, 0, 5, "Ed"), 10),
     Block(Play(4, "pass", NaN, "ABC", 30, 1, 0, NaN, NA), 10),
     Block(Play(NaN, "punt", 4, "XYZ", 70, 0, 0, NaN, NA), 1)}

SmallTables == UNION {[1..k -> BlockKinds] : k \in 0..MaxBlocks}

\* A table with n players on third down, listed from player n down to player 1;
\* player i converts i of his i + 10 plays, and with `tie` player 1 converts 4
\* of 24, the same rate as player 2.
Roster(n, ptype, tie) ==
    [j \in 1..(2 * n) |->
        LET i == n - ((j - 1) \div 2)
            conv == IF j % 2 = 1 THEN 1 ELSE 0
            k == IF tie /\ i = 1 THEN 2 ELSE 1
        IN Block(Play(3, ptype, 2, "ABC", 30, conv, 0, i, "Pl"),
                 IF conv = 1 THEN (IF tie /\ i = 1 THEN 4 ELSE i) ELSE 10 * k)]

RosterTables ==
    {Roster(n, ptype, tie) :
        n \in {MaxRoster}, ptype \in {"pass", "run"}, tie \in BOOLEAN}

Restrict(rec, cols) == [c \in cols |-> rec[c]]

\* what import_pbp_data may return: a table without the columns in `absent`
SourceTable(blocks, absent) ==
    Frame(AllColumns \ absent,
          [i \in DOMAIN blocks |->
              Block(Restrict(blocks[i].rec, AllColumns \ absent), blocks[i].n)])

SourceTables ==
    {SourceTable(blocks, absent) :
        blocks \in SmallTables \cup RosterTables, absent \in SUBSET OptionalColumns}

\* ------------------------------------------------------------------ state
VARIABLES
    pc,               \* position of main()
    requests,         \* the calls of import_pbp_data: [season, ok], in order
    pbp,              \* the DataFrame main() and the calculators share
    current_season,   \* <<season>>, or <<>> for None
    loaded,           \* the frame as load_play_by_play_data returned it
    league_rates, team_rates, field_position, player_rates,
    output,           \* the output dict, as its (key, value) items in order
    file,             \* ../probability-data.json
    exit_status,      \* <<>> while running, then <<code>>
    serving,          \* proxy: serve_forever is running
    exchanges,        \* proxy: the requests served and their responses
    arg_yards, arg_yardline,            \* bucketizers: the inputs
    got_league, got_team, got_zone      \* bucketizers: the results

runVars ==
    <<pc, requests, pbp, current_season, loaded, league_rates, team_rates,
      field_position, player_rates, output, file, exit_status>>

proxyVars == <<serving, exchanges>>

bucketVars == <<arg_yards, arg_yardline, got_league, got_team, got_zone>>

vars == <<runVars, proxyVars, bucketVars>>

NoFile == [origin |-> "none", content |-> <<>>]

PreviousFile ==
    [origin |-> "previous", content |-> <<<<"generated_at", "earlier">>>>]

RunInit ==
    /\ pc = "start"
    /\ requests = <<>>
    /\ pbp = NoneFrame
    /\ current_season = <<>>
    /\ loaded = NoneFrame
    /\ league_rates = <<>>
    /\ team_rates = <<>>
    /\ field_position = <<>>
    /\ player_rates = <<>>
    /\ output = <<>>
    /\ file \in {NoFile, PreviousFile}
    /\ exit_status = <<>>

ProxyIdle == serving = FALSE /\ exchanges = <<>>

BucketIdle ==
    /\ arg_yards = NaN
    /\ arg_yardline = NaN
    /\ got_league = ""
    /\ got_team = ""
    /\ got_zone = ""

\* ------------------------------------------------- load_play_by_play_data
\* nfl.import_pbp_data([2025]) returns a table
Fetch2025Ok ==
    /\ pc = "start"
    /\ requests' = Append(requests, [season |-> Season2025, ok |-> TRUE])
    /\ \E t \in SourceTables : pbp' = t
    /\ current_season' = <<Season2025>>
    /\ pc' = "fetched"
    /\ UNCHANGED <<loaded, league_rates, team_rates, field_position, player_rates,
                   output, file, exit_status>>
    /\ UNCHANGED <<proxyVars, bucketVars>>

\* nfl.import_pbp_data([2025]) raises: the bare except takes over
Fetch2025Fail ==
    /\ pc = "start"
    /\ requests' = Append(requests, [season |-> Season2025, ok |-> FALSE])
    /\ pc' = "fallback"
    /\ UNCHANGED <<pbp, current_season, loaded, league_rates, team_rates,
                   field_position, player_rates, output, file, exit_status>>
    /\ UNCHANGED <<proxyVars, bucketVars>>

Fetch2024Ok ==
    /\ pc = "fallback"
    /\ requests' = Append(requests, [season |-> Season2024, ok |-> TRUE])
    /\ \E t \in SourceTables : pbp' = t
    /\ current_season' = <<Season2024>>
    /\ pc' = "fetched"
    /\ UNCHANGED <<loaded, league_rates, team_rates, field_position, player_rates,
                   output, file, exit_status>>
    /\ UNCHANGED <<proxyVars, bucketVars>>

\* the fallback raises too: the outer except returns (None, None)
Fetch2024Fail ==
    /\ pc = "fallback"
    /\ requests' = Append(requests, [season |-> Season2024, ok |-> FALSE])
    /\ pbp' = NoneFrame
    /\ current_season' = <<>>
    /\ loaded' = NoneFrame
    /\ pc' = "returned"
    /\ UNCHANGED <<league_rates, team_rates, field_position, player_rates,
                   output, file, exit_status>>
    /\ UNCHANGED <<proxyVars, bucketVars>>

\* lines 114-130: filter, derive first_down_converted, return
FilterDerive ==
    /\ pc = "fetched"
    /\ LET r == FilterAndDerive(pbp)
       IN /\ pbp' = r
          /\ loaded' = r
          /\ current_season' = IF r.isNone THEN <<>> ELSE current_season
    /\ pc' = "returned"
    /\ UNCHANGED <<requests, league_rates, team_rates, field_position, player_rates,
                   output, file, exit_status>>
    /\ UNCHANGED <<proxyVars, bucketVars>>

\* ------------------------------------------------------------------ main
\* if pbp is None: sys.exit(1)
LoadFailed ==
    /\ pc = "returned"
    /\ pbp.isNone
    /\ pc' = "exited"
    /\ exit_status' = <<1>>
    /\ UNCHANGED <<requests, pbp, current_season, loaded, league_rates, team_rates,
                   field_position, player_rates, output, file>>
    /\ UNCHANGED <<proxyVars, bucketVars>>

CalcLeague ==
    /\ pc = "returned"
    /\ ~pbp.isNone
    /\ league_rates' = calculate_league_rates(pbp)
    /\ pbp' = LeagueFrame(pbp)
    /\ pc' = "team"
    /\ UNCHANGED <<requests, current_season, loaded, team_rates, field_position,
                   player_rates, output, file, exit_status>>
    /\ UNCHANGED <<proxyVars, bucketVars>>

CalcTeam ==
    /\ pc = "team"
    /\ team_rates' = calculate_team_rates(pbp)
    /\ pbp' = TeamFrame(pbp)
    /\ pc' = "field"
    /\ UNCHANGED <<requests, current_season, loaded, league_rates, field_position,
                   player_rates, output, file, exit_status>>
    /\ UNCHANGED <<proxyVars, bucketVars>>

CalcField ==
    /\ pc = "field"
    /\ field_position' = calculate_field_position_impact(pbp)
    /\ pbp' = FieldFrame(pbp)
    /\ pc' = "player"
    /\ UNCHANGED <<requests, current_season, loaded, league_rates, team_rates,
                   player_rates, output, file, exit_status>>
    /\ UNCHANGED <<proxyVars, bucketVars>>

CalcPlayer ==
    /\ pc = "player"
    /\ \E rates \in calculate_player_rates(pbp) : player_rates' = rates
    /\ pc' = "assemble"
    /\ UNCHANGED <<requests, pbp, current_season, loaded, league_rates, team_rates,
                   field_position, output, file, exit_status>>
    /\ UNCHANGED <<proxyVars, bucketVars>>

DocumentLatestSeason ==
    <<<<"generated_at", "now">>,
      <<"season", Season2025>>,
      <<"total_plays", len(pbp)>>,
      <<"league_conversion_rates", league_rates>>,
      <<"team_conversion_rates", team_rates>>,
      <<"field_position_impact", field_position>>,
      <<"player_success_rates", player_rates>>,
      <<"metadata", "NFL probability data for live game simulator">>>>

\* lines 61-74: the output dict
Document ==
    <<<<"generated_at", "now">>,
      <<"season", current_season[1]>>,
      <<"total_plays", len(pbp)>>,
      <<"league_conversion_rates", league_rates>>,
      <<"team_conversion_rates", team_rates>>,
      <<"field_position_impact", field_position>>,
      <<"player_success_rates", player_rates>>,
      <<"metadata", "NFL probability data for live game simulator">>>>

Assemble ==
    /\ pc = "assemble"
    /\ output' = Document
    /\ pc' = "open"
    /\ UNCHANGED <<requests, pbp, current_season, loaded, league_rates, team_rates,
                   field_position, player_rates, file, exit_status>>
    /\ UNCHANGED <<proxyVars, bucketVars>>

\* open(output_path, 'w') creates or truncates the file
OpenOk ==
    /\ pc = "open"
    /\ file' = [origin |-> "this_run", content |-> <<>>]
    /\ pc' = "dump"
    /\ UNCHANGED <<requests, pbp, current_season, loaded, league_rates, team_rates,
                   field_position, player_rates, output, exit_status>>
    /\ UNCHANGED <<proxyVars, bucketVars>>

\* open raises OSError: the traceback ends the process with status 1
OpenFail ==
    /\ pc = "open"
    /\ pc' = "crashed"
    /\ exit_status' = <<1>>
    /\ UNCHANGED <<requests, pbp, current_season, loaded, league_rates, team_rates,
                   field_position, player_rates, output, file>>
    /\ UNCHANGED <<proxyVars, bucketVars>>

\* what json.dump has written to f after k items
Written(doc, k) == SubSeq(doc, 1, k)

\* json.dump(output, f) writes the document piece by piece and returns
DumpOk ==
    /\ pc = "dump"
    /\ file' = [file EXCEPT !.content = Written(output, Len(output))]
    /\ pc' = "done"
    /\ exit_status' = <<0>>
    /\ UNCHANGED <<requests, pbp, current_season, loaded, league_rates, team_rates,
                   field_position, player_rates, output>>
    /\ UNCHANGED <<proxyVars, bucketVars>>

\* a write raises (OSError) after k items: `with` closes the file, the
\* traceback ends the process with status 1
DumpFail ==
    /\ pc = "dump"
    /\ \E k \in 0..(Len(output) - 1) :
          file' = [file EXCEPT !.content = Written(output, k)]
    /\ pc' = "crashed"
    /\ exit_status' = <<1>>
    /\ UNCHANGED <<requests, pbp, current_season, loaded, league_rates, team_rates,
                   field_position, player_rates, output>>
    /\ UNCHANGED <<proxyVars, bucketVars>>

Init == RunInit /\ ProxyIdle /\ BucketIdle

Next ==
    \/ Fetch2025Ok \/ Fetch2025Fail \/ Fetch2024Ok \/ Fetch2024Fail
    \/ FilterDerive \/ LoadFailed
    \/ CalcLeague \/ CalcTeam \/ CalcField \/ CalcPlayer
    \/ Assemble \/ OpenOk \/ OpenFail \/ DumpOk \/ DumpFail

Spec == Init /\ [][Next]_vars

\* ------------------------------------------------------------ proxy-server
\* request paths, as the pieces the handler tells apart
Paths ==
    {<<"/">>,
     <<"/", "?url=">>,
     <<"/", "?url=", "https%3A", "%2F%2Fsite">>,
     <<"/", "?url=", "https:", "//site", "?url=", "x">>,
     <<"/", "?x=1", "&url=", "https:", "//site">>}

Bodies == {"{}", "[1]"}

Errors == {"HTTP Error 404", "unknown url type"}

\* '?url=' in self.path
HasUrl(path) == \E i \in DOMAIN path : path[i] = "?url="

\* self.path.split('?url=', 1)[1]
AfterUrl(path) ==
    LET i == CHOOSE k \in DOMAIN path :
                 path[k] = "?url=" /\ \A j \in 1..(k - 1) : path[j] # "?url="
    IN SubSeq(path, i + 1, Len(path))

\* urllib.parse.unquote, piece by piece
Unquote(piece) ==
    IF piece = "https%3A" THEN "https:"
    ELSE IF piece = "%2F%2Fsite" THEN "//site"
    ELSE piece

unquote(encoded_url) == [i \in DOMAIN encoded_url |-> Unquote(encoded_url[i])]

\* what urlopen may do for a URL: return a body or raise
Upstream(espn_url) ==
    {[ok |-> FALSE, data |-> "", error |-> e] : e \in Errors}
    \cup (IF espn_url = <<>> THEN {}
          ELSE {[ok |-> TRUE, data |-> d, error |-> ""] : d \in Bodies})

\* _set_cors_headers
CorsHeaders ==
    <<<<"Access-Control-Allow-Origin", "*">>,
      <<"Access-Control-Allow-Methods", "GET, POST, OPTIONS">>,
      <<"Access-Control-Allow-Headers", "*">>,
      <<"Access-Control-Max-Age", "3600">>>>

Response(status, headers, body) ==
    [status |-> status, headers |-> headers, body |-> body]

MissingUrlResponseBare ==
    Response(400, <<<<"Content-Type", "text/plain">>>>, <<"Missing 'url' parameter">>)

\* the 400 branch of do_GET
MissingUrlResponse ==
    Response(400, CorsHeaders \o <<<<"Content-Type", "text/plain">>>>,
             <<"Missing 'url' parameter">>)

\* the except branch of do_GET
ProxyErrorResponse(e) ==
    Response(500, CorsHeaders \o <<<<"Content-Type", "text/plain">>>>,
             <<"Proxy error: ", e>>)

\* the success branch of do_GET
ProxiedResponse(data) ==
    Response(200, CorsHeaders \o <<<<"Content-Type", "application/json">>>>, <<data>>)

\* do_OPTIONS
PreflightResponse == Response(200, CorsHeaders, <<>>)

GetResponse(path, up) ==
    IF HasUrl(path)
    THEN IF up.ok THEN ProxiedResponse(up.data) ELSE ProxyErrorResponse(up.error)
    ELSE MissingUrlResponse

NoFetch == [ok |-> FALSE, data |-> "", error |-> ""]

run_server ==
    /\ ~serving
    /\ exchanges = <<>>
    /\ serving' = TRUE
    /\ UNCHANGED exchanges
    /\ UNCHANGED <<runVars, bucketVars>>

do_GET ==
    /\ serving
    /\ Len(exchanges) < MaxRequests
    /\ \E path \in Paths :
          \E up \in (IF HasUrl(path) THEN Upstream(unquote(AfterUrl(path)))
                     ELSE {NoFetch}) :
             exchanges' = Append(exchanges,
                 [method |-> "GET", path |-> path, upstream |-> up,
                  response |-> GetResponse(path, up), serving |-> serving])
    /\ UNCHANGED serving
    /\ UNCHANGED <<runVars, bucketVars>>

do_OPTIONS ==
    /\ serving
    /\ Len(exchanges) < MaxRequests
    /\ \E path \in Paths :
          exchanges' = Append(exchanges,
              [method |-> "OPTIONS", path |-> path, upstream |-> NoFetch,
               response |-> PreflightResponse, serving |-> serving])
    /\ UNCHANGED serving
    /\ UNCHANGED <<runVars, bucketVars>>

\* Ctrl+C: serve_forever is left and the process exits
KeyboardInterrupt ==
    /\ serving
    /\ serving' = FALSE
    /\ UNCHANGED exchanges
    /\ UNCHANGED <<runVars, bucketVars>>

ProxyNext == run_server \/ do_GET \/ do_OPTIONS \/ KeyboardInterrupt

RunIdle ==
    /\ pc = "start"
    /\ requests = <<>>
    /\ pbp = NoneFrame
    /\ current_season = <<>>
    /\ loaded = NoneFrame
    /\ league_rates = <<>>
    /\ team_rates = <<>>
    /\ field_position = <<>>
    /\ player_rates = <<>>
    /\ output = <<>>
    /\ file = NoFile
    /\ exit_status = <<>>

ProxyInit == RunIdle /\ ProxyIdle /\ BucketIdle

SpecProxy == ProxyInit /\ [][ProxyNext]_vars

\* ------------------------------------------------- the bucketizers alone
Yards == {NaN} \cup 0..MaxYards

Yardlines == {NaN} \cup 0..MaxYardline

BucketInit ==
    /\ arg_yards \in Yards
    /\ arg_yardline \in Yardlines
    /\ got_league = ""
    /\ got_team = ""
    /\ got_zone = ""

CallDistanceBucket ==
    /\ got_league = ""
    /\ got_league' = distance_bucket(arg_yards)
    /\ UNCHANGED <<arg_yards, arg_yardline, got_team, got_zone>>
    /\ UNCHANGED <<runVars, proxyVars>>

CallTeamDistanceBucket ==
    /\ got_team = ""
    /\ got_team' = team_distance_bucket(arg_yards)
    /\ UNCHANGED <<arg_yards, arg_yardline, got_league, got_zone>>
    /\ UNCHANGED <<runVars, proxyVars>>

CallFieldZone ==
    /\ got_zone = ""
    /\ got_zone' = field_zone(arg_yardline)
    /\ UNCHANGED <<arg_yards, arg_yardline, got_league, got_team>>
    /\ UNCHANGED <<runVars, proxyVars>>

BucketNext == CallDistanceBucket \/ CallTeamDistanceBucket \/ CallFieldZone

BucketsInit == RunIdle /\ ProxyIdle /\ BucketInit

SpecBucket == BucketsInit /\ [][BucketNext]_vars

\* ======================================================================
\* Properties
\* ======================================================================
Ended == pc \in {"done", "exited", "crashed"}

\* the boundary tables of the data model
TableBucket(d) ==
    IF d = NaN THEN "medium"
    ELSE IF d \in 0..3 THEN "short"
    ELSE IF d \in 4..6 THEN "medium"
    ELSE IF d \in 7..10 THEN "long"
    ELSE "very_long"

TableZone(y) ==
    IF y = NaN THEN "mid_field"
    ELSE IF y \in 0..10 THEN "red_zone"
    ELSE IF y \in 11..20 THEN "green_zone"
    ELSE IF y \in 21..50 THEN "mid_field"
    ELSE "own_territory"

Buckets == {"short", "medium", "long", "very_long"}

Zones == {"red_zone", "green_zone", "mid_field", "own_territory"}

\* the league groups of the record set the loader returned
LeagueGroupKeys == {3, 4} \X Buckets \X {"pass", "run"}

InLeagueGroup(r, key) ==
    r["down"] = key[1] /\ TableBucket(r["ydstogo"]) = key[2] /\ r["play_type"] = key[3]

LeagueGroupSize(key) ==
    CountRows(loaded.rows,
              [j \in DOMAIN loaded.rows |-> InLeagueGroup(loaded.rows[j].rec, key)])

LeagueGroupConverted(key) ==
    CountRows(loaded.rows,
              [j \in DOMAIN loaded.rows |->
                  /\ InLeagueGroup(loaded.rows[j].rec, key)
                  /\ loaded.rows[j].rec["first_down_converted"] = 1])

LeagueRecordsOf(key) ==
    {i \in DOMAIN league_rates :
        <<league_rates[i].down, league_rates[i].distance, league_rates[i].play_type>> = key}

\* (Each calculator's result is examined in the state its call returns to.)
\* C1: calculate_league_rates emits exactly one record for every (down,
\* distance bucket, play type) group of the third- and fourth-down records
\* that holds at least 10 records, and nothing else; its sample_size is the
\* size of the group and its success_rate is converted / sample_size.
C1_LeagueRatesExact ==
    pc = "team" =>
        /\ \A key \in LeagueGroupKeys :
              IF LeagueGroupSize(key) >= 10
              THEN /\ Cardinality(LeagueRecordsOf(key)) = 1
                   /\ \A i \in LeagueRecordsOf(key) :
                         /\ league_rates[i].sample_size = LeagueGroupSize(key)
                         /\ league_rates[i].success_rate.den = league_rates[i].sample_size
                         /\ league_rates[i].success_rate.num = LeagueGroupConverted(key)
              ELSE LeagueRecordsOf(key) = {}
        /\ \A i \in DOMAIN league_rates :
              <<league_rates[i].down, league_rates[i].distance,
                league_rates[i].play_type>> \in LeagueGroupKeys

\* 20 third-down short passes, 15 of them converted, give the one record
C1_Witness ==
    /\ pc = "team"
    /\ league_rates =
          <<[down |-> 3, distance |-> "short", play_type |-> "pass",
             success_rate |-> [num |-> 15, den |-> 20], sample_size |-> 20]>>

\* ---------------------------------------------------------------- C2
TeamGroupKeys == {"ABC", "XYZ", NA} \X Buckets \X {"pass", "run"}

InTeamGroup(r, key) ==
    /\ r["down"] = 3
    /\ r["posteam"] = key[1]
    /\ TableBucket(r["ydstogo"]) = key[2]
    /\ r["play_type"] = key[3]

TeamGroupSize(key) ==
    CountRows(loaded.rows,
              [j \in DOMAIN loaded.rows |-> InTeamGroup(loaded.rows[j].rec, key)])

\* the third-down plays of one player in the record set the loader returned
PlaysOf(idcol, ptype, id) ==
    IF idcol \in loaded.columns
    THEN CountRows(loaded.rows,
             [j \in DOMAIN loaded.rows |->
                 /\ loaded.rows[j].rec["down"] = 3
                 /\ loaded.rows[j].rec["play_type"] = ptype
                 /\ loaded.rows[j].rec[idcol] = id])
    ELSE 0

IdColumn(position) ==
    IF position = "WR" THEN "receiver_player_id" ELSE "rusher_player_id"

NameColumn(position) ==
    IF position = "WR" THEN "receiver_player_name" ELSE "rusher_player_name"

PlayType(position) == IF position = "WR" THEN "pass" ELSE "run"

\* the player ids of a position in the record set the loader returned
IdsOf(position) ==
    IF IdColumn(position) \in loaded.columns
    THEN {r[IdColumn(position)] : r \in RowsOf(loaded.rows)} \ {NaN}
    ELSE {}

Named(position, id) ==
    \E r \in RowsOf(loaded.rows) :
        /\ r["down"] = 3
        /\ r["play_type"] = PlayType(position)
        /\ r[IdColumn(position)] = id
        /\ r[NameColumn(position)] # NA

\* the players whose group passes the filters of the position's sub-pipeline
Qualifying(position) ==
    {id \in IdsOf(position) :
        PlaysOf(IdColumn(position), PlayType(position), id) >= 10 /\ Named(position, id)}

Listed(position) ==
    {player_rates[i].player_id :
        i \in {j \in DOMAIN player_rates : player_rates[j].position = position}}

\* C2: no emitted record is backed by fewer samples than its calculator's
\* minimum: league records have sample_size >= 10, team records have
\* sample_size >= 5 and a defined team, player records come from at least 10
\* targets (WR) or carries (RB); the bounds are inclusive: a league group of
\* exactly 10, a team group of exactly 5 and a player of exactly 10 are kept.
C2_MinimumSamples ==
    /\ pc = "team" =>
          /\ \A i \in DOMAIN league_rates : league_rates[i].sample_size >= 10
          /\ \A key \in LeagueGroupKeys :
                LeagueGroupSize(key) = 10 => LeagueRecordsOf(key) # {}
    /\ pc = "field" =>
          /\ \A i \in DOMAIN team_rates :
                /\ team_rates[i].sample_size >= 5
                /\ team_rates[i].team # NA
                /\ team_rates[i].sample_size =
                      TeamGroupSize(<<team_rates[i].team, team_rates[i].distance,
                                      team_rates[i].play_type>>)
          /\ \A key \in TeamGroupKeys :
                (TeamGroupSize(key) = 5 /\ key[1] # NA) =>
                    \E i \in DOMAIN team_rates :
                        <<team_rates[i].team, team_rates[i].distance,
                          team_rates[i].play_type>> = key
    /\ pc = "assemble" =>
          /\ \A i \in DOMAIN player_rates :
                PlaysOf(IdColumn(player_rates[i].position),
                        PlayType(player_rates[i].position),
                        player_rates[i].player_id) >= 10
          /\ ("receiver_player_id" \in loaded.columns
                /\ Cardinality(Qualifying("WR")) <= 50) =>
                \A id \in Qualifying("WR") :
                    PlaysOf("receiver_player_id", "pass", id) = 10 => id \in Listed("WR")

\* a league group of exactly 10, a team group of exactly 5 and a receiver of
\* exactly 10 targets are all emitted
C2_Witness ==
    /\ pc = "assemble"
    /\ \E i \in DOMAIN league_rates : league_rates[i].sample_size = 10
    /\ \E i \in DOMAIN team_rates : team_rates[i].sample_size = 5
    /\ \E i \in DOMAIN player_rates :
          /\ player_rates[i].position = "WR"
          /\ PlaysOf("receiver_player_id", "pass", player_rates[i].player_id) = 10

\* ---------------------------------------------------------------- C3
Succeeded == {i \in DOMAIN requests : requests[i].ok}

\* C3: the run asks for 2025 first and for 2024 only after 2025 failed; the
\* resolved season is the one whose fetch succeeded and is the document's
\* season; when both fetches fail the run ends with status 1 and the output
\* file is neither opened nor written.
C3_SeasonResolution ==
    /\ \/ requests = <<>>
       \/ Len(requests) = 1 /\ requests[1].season = 2025
       \/ /\ Len(requests) = 2
          /\ requests[1] = [season |-> 2025, ok |-> FALSE]
          /\ requests[2].season = 2024
    /\ (pc = "start") = (requests = <<>>)
    /\ (pc = "fallback") => requests = <<[season |-> 2025, ok |-> FALSE]>>
    /\ \A s \in {2024, 2025} :
          current_season = <<s>> =>
              requests[Len(requests)] = [season |-> s, ok |-> TRUE]
    /\ (requests # <<>> /\ Succeeded = {} /\ pc # "fallback") =>
          /\ Len(requests) = 2
          /\ pc \in {"returned", "exited"}
          /\ pc = "exited" => exit_status = <<1>>
          /\ pc = "returned" => pbp.isNone
          /\ file.origin # "this_run"
          /\ output = <<>>
    /\ output # <<>> =>
          /\ Succeeded # {}
          /\ \A i \in Succeeded : output[2] = <<"season", requests[i].season>>
    /\ (file.origin = "this_run" /\ file.content # <<>>) => Succeeded # {}

\* the fallback season was used and written
C3_Witness ==
    /\ pc = "done"
    /\ requests = <<[season |-> 2025, ok |-> FALSE], [season |-> 2024, ok |-> TRUE]>>
    /\ Len(file.content) > 1
    /\ file.content[2] = <<"season", 2024>>

\* ---------------------------------------------------------------- C4
\* C4: the absence of optional columns is never fatal: once a table has been
\* fetched the run does not abort, whatever optional columns the table lacks;
\* when the table has no touchdown column every field_position_impact record
\* has td_rate 0.
C4_MissingColumnsNeverFatal ==
    Succeeded # {} =>
        /\ pc # "exited"
        /\ pc = "returned" => ~pbp.isNone
        /\ (pc = "player" /\ "touchdown" \notin loaded.columns) =>
              \A i \in DOMAIN field_position : field_position[i].td_rate.num = 0

\* ---------------------------------------------------------------- C5
RecordsAt(position) ==
    SelectSeq(player_rates, LAMBDA rec : rec.position = position)

\* the block in which a player is first seen in the source records
FirstSeen(position, id) ==
    CHOOSE i \in DOMAIN loaded.rows :
        /\ loaded.rows[i].rec[IdColumn(position)] = id
        /\ \A j \in 1..(i - 1) : loaded.rows[j].rec[IdColumn(position)] # id

\* the conversion rate of a player's third-down plays
RateOf(position, id) ==
    [num |-> CountRows(loaded.rows,
                 [j \in DOMAIN loaded.rows |-> /\ loaded.rows[j].rec["down"] = 3
                            /\ loaded.rows[j].rec["play_type"] = PlayType(position)
                            /\ loaded.rows[j].rec[IdColumn(position)] = id
                            /\ loaded.rows[j].rec["first_down_converted"] = 1]),
     den |-> PlaysOf(IdColumn(position), PlayType(position), id)]

AtMost50Descending(position) ==
    LET list == RecordsAt(position)
    IN /\ Len(list) <= 50
       /\ \A i \in 1..(Len(list) - 1) :
             ~RateLess(list[i].conversion_rate, list[i + 1].conversion_rate)

\* C5 as stated: each list has at most 50 entries, is non-increasing in
\* conversion_rate, and entries with equal conversion_rate are in the order
\* in which their players were first seen in the source records
C5_StableFirstSeenOrder ==
    pc = "assemble" =>
        \A position \in {"WR", "RB"} :
            LET list == RecordsAt(position)
            IN /\ AtMost50Descending(position)
               /\ \A i, j \in DOMAIN list :
                     (i < j /\ RateEq(list[i].conversion_rate, list[j].conversion_rate)) =>
                         FirstSeen(position, list[i].player_id)
                             < FirstSeen(position, list[j].player_id)

\* C5 (amended): each list has at most 50 entries, lists no player twice,
\* holds only qualifying players with their own conversion rate, is
\* non-increasing in conversion_rate, holds min(50, number of qualifying
\* players) entries, and no qualifying player left out has a higher rate than
\* a listed one.
C5_Top50Descending ==
    pc = "assemble" =>
        \A position \in {"WR", "RB"} :
            LET list == RecordsAt(position)
                pool == IF "receiver_player_id" \in loaded.columns
                        THEN Qualifying(position) ELSE {}
            IN /\ AtMost50Descending(position)
               /\ Cardinality(Listed(position)) = Len(list)
               /\ Listed(position) \subseteq pool
               /\ Len(list) = (IF Cardinality(pool) < 50 THEN Cardinality(pool) ELSE 50)
               /\ \A i \in DOMAIN list :
                     RateEq(list[i].conversion_rate, RateOf(position, list[i].player_id))
               /\ \A out \in pool \ Listed(position) : \A i \in DOMAIN list :
                     ~RateLess(list[i].conversion_rate, RateOf(position, out))

\* 51 receivers qualify and 50 are listed
C5_Witness ==
    /\ pc = "assemble"
    /\ "receiver_player_id" \in loaded.columns
    /\ Cardinality(Qualifying("WR")) > 50
    /\ Len(RecordsAt("WR")) = 50

\* ---------------------------------------------------------------- C6
WithinTop(position) == Cardinality(Qualifying(position)) <= 50

WrThenRb ==
    \A i, j \in DOMAIN player_rates :
        (player_rates[i].position = "WR" /\ player_rates[j].position = "RB") => i < j

\* C6 as stated: the two sub-pipelines are independent: without the receiver
\* identity column the qualifying rushers are still listed as RB, and without
\* the rusher identity column the qualifying receivers are still listed as WR
C6_IndependentPipelines ==
    pc = "assemble" =>
        /\ WrThenRb
        /\ ("receiver_player_id" \notin loaded.columns /\ WithinTop("RB")) =>
              Listed("RB") = Qualifying("RB")
        /\ ("rusher_player_id" \notin loaded.columns
              /\ "receiver_player_id" \in loaded.columns /\ WithinTop("WR")) =>
              Listed("WR") = Qualifying("WR")

\* C6 (amended): the output is the receiver list followed by the rusher list;
\* without the receiver identity column the whole result is empty (the
\* rushers are skipped too); with it, the qualifying receivers are listed as
\* WR, and the qualifying rushers are listed as RB exactly when the rusher
\* identity column is present.
C6_ReceiverColumnGatesAll ==
    pc = "assemble" =>
        /\ WrThenRb
        /\ \A i \in DOMAIN player_rates : player_rates[i].position \in {"WR", "RB"}
        /\ "receiver_player_id" \notin loaded.columns => player_rates = <<>>
        /\ ("receiver_player_id" \in loaded.columns /\ WithinTop("WR")) =>
              Listed("WR") = Qualifying("WR")
        /\ ("receiver_player_id" \in loaded.columns /\ WithinTop("RB")) =>
              Listed("RB") = Qualifying("RB")
        /\ "rusher_player_id" \notin loaded.columns => Listed("RB") = {}

\* a rusher qualifies, the receiver identity column is absent, nothing is listed
C6_Witness ==
    /\ pc = "assemble"
    /\ "receiver_player_id" \notin loaded.columns
    /\ Qualifying("RB") # {}
    /\ player_rates = <<>>

\* ---------------------------------------------------------------- C8
\* C8: in every end state of the process the output file either holds the
\* complete serialized document or was not written by this run.
C8_AtomicOutput ==
    Ended => (file.origin # "this_run" \/ file.content = output)

\* ---------------------------------------------------------------- C9
\* C9 as stated: after any calculator the shared record set is the one the
\* loader returned: same rows, same columns, same values
C9_RecordSetUnchanged ==
    pc \in {"team", "field", "player", "assemble"} => pbp = loaded

\* the frame `after` has the rows of `before`, in order, with the same values
\* in the columns of `before`
KeepsData(before, after) ==
    /\ before.columns \subseteq after.columns
    /\ Len(after.rows) = Len(before.rows)
    /\ \A i \in DOMAIN before.rows :
          /\ after.rows[i].n = before.rows[i].n
          /\ Restrict(after.rows[i].rec, before.columns) = before.rows[i].rec

\* C9 (amended): within a run each calculator leaves the rows and the values
\* of the existing columns of the shared record set unchanged, but
\* calculate_league_rates adds the derived column dist_bucket to it,
\* calculate_team_rates rewrites that column with the same values and
\* calculate_field_position_impact adds field_zone; calculate_player_rates
\* leaves the set unchanged.
C9_OnlyDerivedColumnsAdded ==
    [][/\ (pc = "returned" /\ pc' = "team") =>
             /\ KeepsData(pbp, pbp')
             /\ pbp'.columns = pbp.columns \cup {"dist_bucket"}
       /\ pc = "team" => pbp' = pbp
       /\ pc = "field" =>
             /\ KeepsData(pbp, pbp')
             /\ pbp'.columns = pbp.columns \cup {"field_zone"}
       /\ pc = "player" => pbp' = pbp]_vars

\* all four calculators have run on a non-empty record set, which now has the
\* two derived columns and otherwise the loader's data
C9_Witness ==
    /\ pc = "assemble"
    /\ loaded.rows # <<>>
    /\ pbp.columns = loaded.columns \cup {"dist_bucket", "field_zone"}
    /\ pbp # loaded
    /\ KeepsData(loaded, pbp)

\* ---------------------------------------------------------------- C7
\* C7: the bucketizers are total and follow the boundary tables: an undefined
\* distance is medium, d <= 3 short, 4..6 medium, 7..10 long, above 10
\* very_long; an undefined field position is mid_field, y <= 10 red_zone,
\* 11..20 green_zone, 21..50 mid_field, above 50 own_territory; and the two
\* copies of distance_bucket agree.
C7_BucketTables ==
    /\ got_league # "" => (got_league \in Buckets /\ got_league = TableBucket(arg_yards))
    /\ got_team # "" => (got_team \in Buckets /\ got_team = TableBucket(arg_yards))
    /\ (got_league # "" /\ got_team # "") => got_league = got_team
    /\ got_zone # "" => (got_zone \in Zones /\ got_zone = TableZone(arg_yardline))

\* both copies and field_zone have been applied at boundary values
C7_Witness ==
    /\ arg_yards = 10
    /\ arg_yardline = 51
    /\ got_league = "long"
    /\ got_team = "long"
    /\ got_zone = "own_territory"

\* --------------------------------------------------------------- C10
HasCorsHeaders(response) ==
    \A h \in {<<"Access-Control-Allow-Origin", "*">>,
              <<"Access-Control-Allow-Methods", "GET, POST, OPTIONS">>,
              <<"Access-Control-Allow-Headers", "*">>,
              <<"Access-Control-Max-Age", "3600">>} :
        \E i \in DOMAIN response.headers : response.headers[i] = h

====
